---- MODULE Spec2Model ----
(***************************************************************************)
(* mylang-lsp: the tokenizer (analysis/lexer/mod.rs), the scope check      *)
(* (find_unknown_words / handle_let_statement, in main.rs and in           *)
(* analysis/mod.rs) and the two entry points that drive them: the framed   *)
(* session loop of main.rs and the run_analysis function of                *)
(* analysis/mod.rs.                                                        *)
(*                                                                         *)
(* A text is a sequence of characters, each a one-character string.  Rust  *)
(* indexes a String by byte (source.len(), source[a..b]) but the lexer     *)
(* reads characters with source.chars().nth(k); both are modelled, so a    *)
(* character of more than one byte separates the two.                      *)
(***************************************************************************)
EXTENDS Integers, Sequences, FiniteSets, TLC

\* ------------------------------------------------------------------ bounds
\* Longest generated document text, in chunks of DocChunks.
MaxChunks == 3

\* Frames written to the channel of the framing specification.
MaxFrames == 2

\* ------------------------------------------------------- characters, bytes
Digits == {"0", "1", "2", "3", "4", "5", "6", "7", "8", "9"}

Letters ==
    {"a", "b", "c", "d", "e", "f", "g", "h", "i", "j", "k", "l", "m",
     "n", "o", "p", "q", "r", "s", "t", "u", "v", "w", "x", "y", "z",
     "A", "B", "C", "D", "E", "F", "G", "H", "I", "J", "K", "L", "M",
     "N", "O", "P", "Q", "R", "S", "T", "U", "V", "W", "X", "Y", "Z"}

\* A character outside ASCII: two bytes in UTF-8, and alphanumeric for
\* char::is_alphanumeric.
NonAscii == {"é"}

\* Option::None of source.chars().nth(k).
None == "None"

\* UTF-8 width of a character.
Width(c) == IF c \in NonAscii THEN 2 ELSE 1

RECURSIVE ByteOffset(_, _)
\* Byte offset of the k-th character (0-based) of source; k = Len gives len().
ByteOffset(source, k) ==
    IF k = 0 THEN 0 ELSE ByteOffset(source, k - 1) + Width(source[k])

\* String::len(): the length in bytes.
ByteLen(source) == ByteOffset(source, Len(source))

\* source.chars().nth(k)
Nth(source, k) == IF k < Len(source) THEN source[k + 1] ELSE None

\* A byte index that is the start of a character, or the end of the string.
IsCharBoundary(source, b) == \E k \in 0..Len(source) : ByteOffset(source, k) = b

\* &source[a..b]: panics unless a <= b <= len() and both are char boundaries.
SliceOk(source, a, b) ==
    /\ a <= b
    /\ b <= ByteLen(source)
    /\ IsCharBoundary(source, a)
    /\ IsCharBoundary(source, b)

CharIndexOf(source, b) == CHOOSE k \in 0..Len(source) : ByteOffset(source, k) = b

Slice(source, a, b) ==
    SubSeq(source, CharIndexOf(source, a) + 1, CharIndexOf(source, b))

\* char::is_digit(10)
IsDigit(c) == c \in Digits

\* char::is_alphanumeric() || c == '_'
IsIdentChar(c) == c \in Letters \cup Digits \cup NonAscii \cup {"_"}

\* ------------------------------------------------------------------ tokens
Token(type, lexeme, line, column) ==
    [token_type |-> type, lexeme |-> lexeme, line |-> line, column |-> column]

\* The single-character arms of lex's match that push one token.
SingleCharType(c) ==
    CASE c = "+" -> "PLUS"
      [] c = "*" -> "STAR"
      [] c = "^" -> "CARET"
      [] c = "(" -> "LeftParen"
      [] c = ")" -> "RightParen"
      [] c = "{" -> "LeftBrace"
      [] c = "}" -> "RightBrace"
      [] c = "[" -> "LeftBracket"
      [] c = "]" -> "RightBracket"
      [] c = "," -> "COMMA"
      [] c = "." -> "DOT"
      [] c = ":" -> "COLON"
      [] c = ";" -> "SEMICOLON"

SingleChars == {"+", "*", "^", "(", ")", "{", "}", "[", "]", ",", ".", ":", ";"}

\* The arms that look one character ahead: the character expected next, the
\* type pushed when it is there and the type pushed when it is not.
LookaheadChars == {"-", "|", "=", "!", ">", "<"}

LookaheadExpected(c) == IF c \in {"-", "|"} THEN ">" ELSE "="

LookaheadMatchedBothArrows(c) ==
    CASE c = "-" -> "ARROW"
      [] c = "|" -> "ARROW"
      [] c = "=" -> "EqualEqual"
      [] c = "!" -> "BangEqual"
      [] c = ">" -> "GreaterEqual"
      [] c = "<" -> "LessEqual"

LookaheadMatched(c) ==
    CASE c = "-" -> "ARROW"
      [] c = "|" -> "PIPE"
      [] c = "=" -> "EqualEqual"
      [] c = "!" -> "BangEqual"
      [] c = ">" -> "GreaterEqual"
      [] c = "<" -> "LessEqual"

LookaheadAlone(c) ==
    CASE c = "-" -> "MINUS"
      [] c = "|" -> "ARROW"
      [] c = "=" -> "EQUAL"
      [] c = "!" -> "BANG"
      [] c = ">" -> "GREATER"
      [] c = "<" -> "LESS"

KeywordTypeNoLiterals(lexeme) ==
    CASE lexeme = <<"i", "f">> -> "IF"
      [] lexeme = <<"e", "l", "s", "e">> -> "ELSE"
      [] lexeme = <<"l", "e", "t">> -> "LET"
      [] OTHER -> "IDENTIFIER"

\* The reserved-word table of add_identifier_token.
KeywordType(lexeme) ==
    CASE lexeme = <<"t", "r", "u", "e">> -> "TRUE"
      [] lexeme = <<"f", "a", "l", "s", "e">> -> "FALSE"
      [] lexeme = <<"i", "f">> -> "IF"
      [] lexeme = <<"e", "l", "s", "e">> -> "ELSE"
      [] lexeme = <<"l", "e", "t">> -> "LET"
      [] OTHER -> "IDENTIFIER"

\* ------------------------------------------------------------------- lexer
\* The lexer's state: the tokens pushed, the cursor, the column and line
\* counters, the lines printed for unexpected characters, and whether an
\* unwrap or a slice has panicked.
LexState(tokens, current, column, line, printed, panic) ==
    [tokens |-> tokens, current |-> current, column |-> column, line |-> line,
     printed |-> printed, panic |-> panic]

Panicked(st) == [st EXCEPT !.panic = TRUE]

\* match_char: [panic, matched, current].
match_char(source, current, expected) ==
    IF current + 1 < ByteLen(source)
    THEN IF Nth(source, current + 1) = None
         THEN [panic |-> TRUE, matched |-> FALSE, current |-> current]
         ELSE IF Nth(source, current + 1) = expected
              THEN [panic |-> FALSE, matched |-> TRUE, current |-> current + 1]
              ELSE [panic |-> FALSE, matched |-> FALSE, current |-> current]
    ELSE [panic |-> FALSE, matched |-> FALSE, current |-> current]

RECURSIVE SkipComment(_, _)
\* The comment loop of lex: advance to the next newline or to len().
SkipComment(source, current) ==
    IF current < ByteLen(source) /\ Nth(source, current) # "\n"
    THEN SkipComment(source, current + 1)
    ELSE current

RECURSIVE ScanWhile(_, _, _)
\* The loops of add_number_token (digits = TRUE) and add_identifier_token:
\* the cursor after the run, or -1 when nth(..).unwrap() panics.
ScanWhile(source, current, digits) ==
    IF current < ByteLen(source)
    THEN IF Nth(source, current) = None
         THEN -1
         ELSE IF (IF digits THEN IsDigit(Nth(source, current))
                            ELSE IsIdentChar(Nth(source, current)))
              THEN ScanWhile(source, current + 1, digits)
              ELSE current
    ELSE current

add_number_token(source, st, start) ==
    LET cur == ScanWhile(source, st.current, TRUE) IN
    IF cur = -1 \/ ~SliceOk(source, start, cur)
    THEN Panicked(st)
    ELSE [st EXCEPT !.current = cur,
                    !.tokens = Append(@, Token("NUMBER", Slice(source, start, cur),
                                               st.line, st.column))]

add_identifier_token(source, st, start) ==
    LET cur == ScanWhile(source, st.current, FALSE) IN
    IF cur = -1 \/ ~SliceOk(source, start, cur)
    THEN Panicked(st)
    ELSE LET lexeme == Slice(source, start, cur) IN
         [st EXCEPT !.current = cur,
                    !.tokens = Append(@, Token(KeywordType(lexeme), lexeme,
                                               st.line, st.column))]

RECURSIVE StringBodyNoEscape(_, _)
StringBodyNoEscape(source, s) ==
    IF s.current < ByteLen(source)
    THEN IF Nth(source, s.current) = None
         THEN [s EXCEPT !.panic = TRUE]
         ELSE IF Nth(source, s.current) # "\""
              THEN LET nl == Nth(source, s.current) = "\n" IN
                   StringBodyNoEscape(source,
                       [current |-> s.current + 1,
                        column |-> (IF nl THEN 0 ELSE s.column) + 1,
                        line |-> IF nl THEN s.line + 1 ELSE s.line,
                        panic |-> FALSE])
              ELSE s
    ELSE s

RECURSIVE StringBody(_, _)
\* The while loop of add_string_token on [current, column, line, panic].
StringBody(source, s) ==
    IF s.current < ByteLen(source)
    THEN IF Nth(source, s.current) = None
         THEN [s EXCEPT !.panic = TRUE]
         ELSE IF Nth(source, s.current) # "\""
              THEN LET esc == Nth(source, s.current) = "\\"
                       cur1 == IF esc THEN s.current + 1 ELSE s.current
                       col1 == IF esc THEN s.column + 1 ELSE s.column
                   IN  IF Nth(source, cur1) = None
                       THEN [s EXCEPT !.panic = TRUE]
                       ELSE LET nl == Nth(source, cur1) = "\n" IN
                            StringBody(source,
                                [current |-> cur1 + 1,
                                 column |-> (IF nl THEN 0 ELSE col1) + 1,
                                 line |-> IF nl THEN s.line + 1 ELSE s.line,
                                 panic |-> FALSE])
              ELSE s
    ELSE s

add_string_token(source, st, start) ==
    LET s == StringBody(source, [current |-> st.current + 1, column |-> st.column,
                                 line |-> st.line, panic |-> FALSE])
        cur == s.current + 1
    IN  IF s.panic \/ ~SliceOk(source, start, cur)
        THEN Panicked(st)
        ELSE [st EXCEPT !.current = cur,
                        !.column = s.column + 1,
                        !.line = s.line,
                        !.tokens = Append(@, Token("STRING", Slice(source, start, cur),
                                                   s.line, st.column))]

\* One character lexeme c.to_string().
Push(st, type, lexeme) ==
    [st EXCEPT !.tokens = Append(@, Token(type, lexeme, st.line, st.column))]

\* One iteration of the while loop of lex; st0.current < source.len().
LexStep(source, st0) ==
    LET st == [st0 EXCEPT !.column = @ + 1]
        start == st.current
        c == Nth(source, st.current)
        Advance(s) == [s EXCEPT !.current = @ + 1]
    IN  IF c = None THEN Panicked(st)
        ELSE IF c \in SingleChars THEN Advance(Push(st, SingleCharType(c), <<c>>))
        ELSE IF c \in LookaheadChars THEN
            LET m == match_char(source, st.current, LookaheadExpected(c)) IN
            IF m.panic THEN Panicked(st)
            ELSE IF m.matched
                 THEN IF SliceOk(source, start, m.current + 1)
                      THEN Advance(Push([st EXCEPT !.current = m.current],
                                        LookaheadMatched(c),
                                        Slice(source, start, m.current + 1)))
                      ELSE Panicked(st)
                 ELSE Advance(Push(st, LookaheadAlone(c), <<c>>))
        ELSE IF c = "/" THEN
            LET m == match_char(source, st.current, "/") IN
            IF m.panic THEN Panicked(st)
            ELSE IF m.matched
                 THEN Advance([st EXCEPT !.current = SkipComment(source, m.current)])
                 ELSE Advance(Push(st, "SLASH", <<c>>))
        ELSE IF c \in Digits THEN add_number_token(source, st, start)
        ELSE IF c = "\"" THEN add_string_token(source, st, start)
        ELSE IF c \in Letters \cup {"_"} THEN add_identifier_token(source, st, start)
        ELSE IF c \in {" ", "\r", "\t"} THEN Advance(st)
        ELSE IF c = "\n" THEN Advance([st EXCEPT !.line = @ + 1, !.column = 0])
        ELSE Advance([st EXCEPT !.printed = @ + 1])

RECURSIVE LexLoop(_, _)
LexLoop(source, st) ==
    IF st.panic THEN st
    ELSE IF st.current < ByteLen(source)
         THEN LexLoop(source, LexStep(source, st))
         ELSE Push(st, "EOF", <<>>)

lexWithoutEof(source) ==
    LET st == LexLoop(source, LexState(<<>>, 0, 0, 1, 0, FALSE))
    IN  IF st.panic THEN st
        ELSE [st EXCEPT !.tokens = SubSeq(@, 1, Len(@) - 1)]

\* lex(source): [panic, tokens, printed, ...]; tokens is what the caller gets
\* when panic is FALSE.
lex(source) == LexLoop(source, LexState(<<>>, 0, 0, 1, 0, FALSE))


\* ------------------------------------------------------------- diagnostics
\* u32 values are kept as their representative modulo 2^32 in
\* -2^31 .. 2^31 - 1, the range of the checker's integers: a column is
\* itself, and u32::MAX (2^32 - 1) is -1.

\* Range::default(): start and end both line 0, character 0.
ZeroRange == [start |-> [line |-> 0, character |-> 0],
              end |-> [line |-> 0, character |-> 0]]

\* The synthetic Diagnostic that run_analysis returns as Err.
DecodeError(message) ==
    [range |-> ZeroRange, severity |-> "Error", message |-> message, arg |-> <<>>]

\* token.column + token.lexeme.len() - 1 on usize underflows when the sum
\* is 0: a panic with overflow checks (debug), a wrap to usize::MAX without
\* them (release), which `as u32` truncates to u32::MAX.
GenerateOverflows(token) == token.column + ByteLen(token.lexeme) = 0

\* Diagnostic::generate (analysis/diagnostics) and handle_error (main.rs),
\* when the subtraction does not panic.  message is the format string, arg
\* the lexeme formatted into it.
Generate(token, message, arg) ==
    [range |-> [start |-> [line |-> token.line, character |-> token.column],
                end |-> [line |-> token.line,
                         character |-> token.column + ByteLen(token.lexeme) - 1]],
     severity |-> "Error", message |-> message, arg |-> arg]

\* Whether generating a diagnostic for token panics in this build.
GeneratePanics(token, bld) == bld = "debug" /\ GenerateOverflows(token)

\* ------------------------------------------------------------- scope stack
\* generate_globals(): the five reserved words.
generate_globals ==
    {<<"l", "e", "t">>, <<"i", "f">>, <<"e", "l", "s", "e">>,
     <<"t", "r", "u", "e">>, <<"f", "a", "l", "s", "e">>}

InnermostContainsNever(stack, lexeme) == FALSE

InnermostContainsAnyScope(stack, lexeme) ==
    \E k \in 1..Len(stack) : lexeme \in stack[k]

\* scope_stack.last().unwrap().contains(&lexeme)
InnermostContains(stack, lexeme) == lexeme \in stack[Len(stack)]

AnyScopeSkipsGlobal(stack, lexeme) ==
    \E k \in 2..Len(stack) : lexeme \in stack[k]

\* scope_stack.iter().any(|set| set.contains(&lexeme))
AnyScopeContains(stack, lexeme) ==
    \E k \in 1..Len(stack) : lexeme \in stack[k]

InsertNameDropped(stack, lexeme) == stack

\* scope_stack.last_mut().unwrap().insert(lexeme)
InsertName(stack, lexeme) ==
    [stack EXCEPT ![Len(stack)] = @ \cup {lexeme}]

PushScopeDropped(stack, added_words) == stack

\* scope_stack.push(added_words)
PushScope(stack, added_words) == Append(stack, added_words)

PopScopeDropped(stack) == stack

\* scope_stack.pop()
PopScope(stack) == SubSeq(stack, 1, Len(stack) - 1)

\* --------------------------------------------------- handle_let_statement
RECURSIVE LetScan(_, _, _, _, _)
\* The while loop of handle_let_statement over tokens[current..] (current is
\* 0-based in the whole token sequence): [added_words, diagnostics, panic].
LetScan(toks, current, added_words, diags, bld) ==
    IF current >= Len(toks)
    THEN [added_words |-> added_words, diagnostics |-> diags, panic |-> FALSE]
    ELSE LET token == toks[current + 1] IN
         IF token.token_type = "IDENTIFIER"
         THEN IF token.lexeme \notin added_words
              THEN LetScan(toks, current + 1, added_words \cup {token.lexeme},
                           diags, bld)
              ELSE IF GeneratePanics(token, bld)
                   THEN [added_words |-> added_words, diagnostics |-> diags,
                         panic |-> TRUE]
                   ELSE LetScan(toks, current + 1, added_words,
                                Append(diags,
                                       Generate(token,
                                                "Duplicate identifier in let statement",
                                                token.lexeme)),
                                bld)
         ELSE IF token.token_type = "ARROW"
              THEN [added_words |-> added_words, diagnostics |-> diags,
                    panic |-> FALSE]
              ELSE IF GeneratePanics(token, bld)
                   THEN [added_words |-> added_words, diagnostics |-> diags,
                         panic |-> TRUE]
                   ELSE LetScan(toks, current + 1, added_words,
                                Append(diags,
                                       Generate(token,
                                                "Unexpected token in let statement",
                                                token.lexeme)),
                                bld)

\* handle_let_statement(&tokens[from..], &mut diagnostics)
handle_let_statement(toks, from, diags, bld) ==
    LetScan(toks, from, {}, diags, bld)


\* ---------------------------------------------------------------- inputs
\* The pieces generated document texts are built from.
DocChunks ==
    {<<"l", "e", "t", " ">>, <<"x">>, <<"-", ">">>, <<";">>,
     <<"\"">>, <<"\\">>, <<"\n">>}

RECURSIVE ChunkTexts(_)
\* Every concatenation of at most n chunks.
ChunkTexts(n) ==
    IF n = 0 THEN {<<>>}
    ELSE LET shorter == ChunkTexts(n - 1) IN
         shorter \cup {t \o c : t \in shorter, c \in DocChunks}

\* let x -> x;
Text_Let == <<"l", "e", "t", " ", "x", " ", "-", ">", " ", "x", ";">>

\* let x -> x; let x -> x;
Text_TwoLets == Text_Let \o <<" ">> \o Text_Let

\* y;
Text_Y == <<"y", ";">>

\* if true else false;
Text_IfElse ==
    <<"i", "f", " ", "t", "r", "u", "e", " ", "e", "l", "s", "e", " ",
      "f", "a", "l", "s", "e", ";">>

\* let x;(newline): the end-of-input token is at column 0.
Text_LetNewline == <<"l", "e", "t", " ", "x", ";", "\n">>

\* A text with a character of two bytes.
Text_NonAscii == <<"x", "é", ";">>

\* let x -> true;
Text_LetTrue ==
    <<"l", "e", "t", " ", "x", " ", "-", ">", " ", "t", "r", "u", "e", ";">>

\* // comment(newline)let
Text_CommentLet ==
    <<"/", "/", " ", "c", "o", "m", "m", "e", "n", "t", "\n", "l", "e", "t">>

\* let x a |> b;
Text_PipeLet ==
    <<"l", "e", "t", " ", "x", " ", "a", " ", "|", ">", " ", "b", ";">>

\* let x a | b;
Text_BarLet ==
    <<"l", "e", "t", " ", "x", " ", "a", " ", "|", " ", "b", ";">>

\* "a\"b": a string literal with an escaped quote in it.
Text_EscapedQuote == <<"\"", "a", "\\", "\"", "b", "\"">>

\* let x -> let y -> y;
Text_NestedLet ==
    <<"l", "e", "t", " ", "x", " ", "-", ">", " ", "l", "e", "t", " ", "y", " ",
      "-", ">", " ", "y", ";">>

SampleTexts ==
    {Text_Let, Text_TwoLets, Text_Y, Text_IfElse, Text_LetNewline, Text_NonAscii,
     Text_LetTrue, Text_CommentLet, Text_PipeLet, Text_BarLet, Text_EscapedQuote,
     Text_NestedLet}

Texts == ChunkTexts(MaxChunks) \cup SampleTexts

\* lex(text) for every document text.
LexOf == [t \in Texts |-> lex(t)]

\* What the JSON codec makes of a payload.  json: whether it parses as a
\* Value; method: the string at "method" ("none": absent or not a string);
\* params: "absent", "object" (a value that deserializes as the method's
\* params struct), "bad_object" (a value other than a string that does
\* not), "string" (a JSON string holding the JSON of DidOpenParams) or
\* "bad_string" (any other JSON string); text: params.textDocument.text.
Frame(json, method, params, text) ==
    [json |-> json, method |-> method, params |-> params, text |-> text]

Methods == {"none", "initialize", "textDocument/didOpen", "other"}

ParamKinds == {"absent", "object", "bad_object", "string", "bad_string"}

NoFrame == Frame("none", "none", "absent", <<>>)

Frames ==
    {Frame("invalid", "none", "absent", <<>>)}
    \cup {Frame("ok", m, p, <<>>) : m \in Methods, p \in ParamKinds \ {"object", "string"}}
    \cup {Frame("ok", m, p, <<>>) : m \in Methods \ {"textDocument/didOpen"},
                                    p \in {"object", "string"}}
    \cup {Frame("ok", "textDocument/didOpen", p, t) : p \in {"object", "string"},
                                                      t \in Texts}

\* ----------------------------------------------------------------- state
VARIABLES
    entry,          \* "main": the session loop of main.rs;
                    \* "run_analysis": a host calling analysis::run_analysis
    build,          \* "debug" (overflow checks) or "release"
    pc,             \* "read", "loop", "walk", "respond", "done", "eof", "panicked"
    panic,          \* where the process panicked, "" while it has not
    frame,          \* the frame being handled
    scope_stack,    \* Vec<HashSet<String>>
    stack_at_call,  \* scope_stack as find_unknown_words received it
    tokens,         \* find_unknown_words: tokens
    i,              \* find_unknown_words: i (0-based)
    token,          \* find_unknown_words: token, the let of the body walk
    diagnostics,    \* find_unknown_words: diagnostics
    output,         \* what handling the frame has written or returned
    stdin,          \* the bytes the reader has yet to read (FramingSpec)
    written,        \* the payloads that were framed onto stdin
    intact,         \* stdin held every frame whole when the session began
    received,       \* the values `message` has taken, main.rs 117
    stderr          \* the last line the frame reader printed to stderr

\* The byte channel, which Spec leaves out: there a frame arrives whole.
framing_vars == <<stdin, written, intact, received, stderr>>

vars == <<entry, build, pc, panic, frame, scope_stack, stack_at_call, tokens, i,
          token, diagnostics, output, framing_vars>>

NoToken == Token("", <<>>, 0, 0)

\* A line the lexer prints to stdout for an unexpected character.
Stray == [kind |-> "Unexpected character", diagnostics |-> <<>>]

Strays(n) == [k \in 1..n |-> Stray]

Init ==
    /\ entry \in {"main", "run_analysis"}
    /\ build \in {"debug", "release"}
    /\ pc = "read"
    /\ panic = ""
    /\ frame = NoFrame
    /\ scope_stack = IF entry = "main" THEN <<generate_globals>> ELSE <<>>
    /\ stack_at_call = <<>>
    /\ tokens = <<>>
    /\ i = 0
    /\ token = NoToken
    /\ diagnostics = <<>>
    /\ output = <<>>
    /\ stdin = <<>>
    /\ written = <<>>
    /\ intact = TRUE
    /\ received = <<>>
    /\ stderr = ""

check_vars == <<tokens, i, token, diagnostics>>

\* The process aborts at `where`.
Abort(where) ==
    /\ pc' = "panicked"
    /\ panic' = where

FinishWithNotification(out) ==
    /\ pc' = "done"
    /\ output' = Append(out, [kind |-> "textDocument/publishDiagnostics",
                              diagnostics |-> <<>>])
    /\ UNCHANGED <<panic, stack_at_call, check_vars>>

\* Handling ends with `out` written or returned and nothing checked.
Finish(out) ==
    /\ pc' = "done"
    /\ output' = out
    /\ UNCHANGED <<panic, stack_at_call, check_vars>>

StackResetEachCall(ent, stack) == <<generate_globals>>

\* The scope stack find_unknown_words is given: the session's one stack in
\* main, a new one for each call of run_analysis.
StackForCall(ent, stack) ==
    IF ent = "main" THEN stack ELSE <<generate_globals>>

\* The envelope decodes to a didOpen with its text, for this entry point:
\* main reads params with as_str and parses that string; run_analysis
\* deserializes the params value.
DecodesDidOpen(ent, f) ==
    /\ f.json = "ok"
    /\ f.method = "textDocument/didOpen"
    /\ f.params = (IF ent = "main" THEN "string" ELSE "object")

\* The tokens are lexed and the loop of find_unknown_words is entered.
StartCheck(f) ==
    LET lexed == LexOf[f.text]
        stack == StackForCall(entry, scope_stack)
    IN  IF lexed.panic
        THEN /\ Abort("lex")
             /\ scope_stack' = stack
             /\ output' = <<>>
             /\ UNCHANGED <<stack_at_call, check_vars>>
        ELSE /\ pc' = "loop"
             /\ scope_stack' = stack
             /\ stack_at_call' = stack
             /\ tokens' = lexed.tokens
             /\ i' = 0
             /\ token' = NoToken
             /\ diagnostics' = <<>>
             /\ output' = Strays(lexed.printed)
             /\ UNCHANGED panic

\* main.rs 117-154: the payload is parsed and dispatched on its method.
MainDispatch(f) ==
    IF f.json # "ok"
    THEN /\ Abort("from_str(message).unwrap()")
         /\ output' = <<>>
         /\ UNCHANGED <<scope_stack, stack_at_call, check_vars>>
    ELSE IF f.method = "none"
    THEN /\ Finish(<<>>)
         /\ UNCHANGED scope_stack
    ELSE IF f.method = "textDocument/didOpen"
    THEN IF DecodesDidOpen("main", f)
         THEN StartCheck(f)
         ELSE /\ Abort("from_str(param_str).unwrap()")
              /\ output' = <<>>
              /\ UNCHANGED <<scope_stack, stack_at_call, check_vars>>
    ELSE /\ Finish(<<>>)
         /\ UNCHANGED scope_stack

\* run_analysis, analysis/mod.rs 32-102, up to the call of
\* find_unknown_words.
RunAnalysis(f) ==
    LET Err(message) ==
            /\ Finish(<<[kind |-> "Err", diagnostics |-> <<DecodeError(message)>>]>>)
            /\ UNCHANGED scope_stack
        OkNull ==
            /\ Finish(<<[kind |-> "Ok(null)", diagnostics |-> <<>>]>>)
            /\ UNCHANGED scope_stack
    IN  IF f.json # "ok" THEN Err("Invalid JSON")
        ELSE IF f.method = "none" THEN Err("Missing 'method' field")
        ELSE IF f.params = "absent" THEN Err("Missing 'params' field")
        ELSE IF f.method = "initialize"
        THEN IF f.params = "object" THEN OkNull
             ELSE Err("Invalid initialize params")
        ELSE IF f.method = "textDocument/didOpen"
        THEN IF DecodesDidOpen("run_analysis", f) THEN StartCheck(f)
             ELSE Err("Invalid didOpen params")
        ELSE OkNull

\* One frame is read (main) or one message is passed to run_analysis, and
\* handled up to the first iteration of the checking loop.
ReadFrame ==
    /\ pc = "read"
    /\ \E f \in Frames :
          /\ frame' = f
          /\ IF entry = "main" THEN MainDispatch(f) ELSE RunAnalysis(f)
    /\ UNCHANGED <<framing_vars, entry, build>>

\* main.rs 74-77: read_line returns 0 and the loop ends.
ReadEOF ==
    /\ pc = "read"
    /\ entry = "main"
    /\ pc' = "eof"
    /\ UNCHANGED <<framing_vars, entry, build, panic, frame, scope_stack, stack_at_call,
                   check_vars, output>>


\* ------------------------------------------------------ find_unknown_words
\* tokens[i] of the source, i 0-based.
At(k) == tokens[k + 1]

InLoop == pc = "loop" /\ i < Len(tokens)

BreakAsContinue(k, diag) ==
    /\ pc' = "loop"
    /\ i' = k
    /\ diagnostics' = Append(diagnostics, diag)
    /\ UNCHANGED <<panic, scope_stack, stack_at_call, tokens, token, output>>

\* The pass ends early (break) with one more diagnostic.
Break(k, diag) ==
    /\ pc' = "respond"
    /\ i' = k
    /\ diagnostics' = Append(diagnostics, diag)
    /\ UNCHANGED <<panic, scope_stack, stack_at_call, tokens, token, output>>

\* The position a diagnostic of the body walk is given: the identifier's in
\* analysis/mod.rs (174), the let's in main.rs (230).
WalkDiagToken(ent, let_token, ident_token) ==
    IF ent = "main" THEN let_token ELSE ident_token

\* The message for a let at the end of the tokens: analysis/mod.rs 128,
\* main.rs 184.
EndAfterLetMessage(ent) ==
    IF ent = "main" THEN "Unexpected end of input after 'let' keyword"
    ELSE "Unexpected termination"

\* The LET arm up to the body walk: analysis/mod.rs 125-167, main.rs 180-223.
LetStep ==
    /\ InLoop
    /\ At(i).token_type = "LET"
    /\ LET let_token == At(i) IN
       IF i + 1 >= Len(tokens)
       THEN Break(i + 1, Generate(let_token, EndAfterLetMessage(entry), <<>>))
       ELSE IF At(i + 1).token_type # "IDENTIFIER"
       THEN Break(i + 1, Generate(let_token, "Expected identifier after 'let', found",
                                  At(i + 1).lexeme))
       ELSE LET lexeme == At(i + 1).lexeme IN
            IF InnermostContains(scope_stack, lexeme)
            THEN Break(i + 1, Generate(let_token,
                                       "Duplicate identifier in let statement", lexeme))
            ELSE IF i + 2 >= Len(tokens)
            THEN /\ pc' = "respond"
                 /\ i' = i + 2
                 /\ scope_stack' = InsertName(scope_stack, lexeme)
                 /\ diagnostics' =
                        Append(diagnostics,
                               Generate(let_token,
                                        "Unexpected end of input after identifier in let statement",
                                        <<>>))
                 /\ UNCHANGED <<panic, stack_at_call, tokens, token, output>>
            ELSE LET scan == handle_let_statement(tokens, i + 2, diagnostics, build)
                     bound == InsertName(scope_stack, lexeme)
                 IN  IF scan.panic
                     THEN /\ Abort("attempt to subtract with overflow")
                          /\ i' = i + 2
                          /\ scope_stack' = bound
                          /\ token' = let_token
                          /\ diagnostics' = scan.diagnostics
                          /\ UNCHANGED <<stack_at_call, tokens, output>>
                     ELSE /\ pc' = "walk"
                          /\ i' = i + 2
                          /\ scope_stack' = PushScope(bound, scan.added_words)
                          /\ token' = let_token
                          /\ diagnostics' = scan.diagnostics
                          /\ UNCHANGED <<panic, stack_at_call, tokens, output>>
    /\ UNCHANGED <<framing_vars, entry, build, frame>>

\* The IDENTIFIER arm and the i += 1 after the match: analysis/mod.rs
\* 193-200 and 207, main.rs 247-254 and 261.
IdentStep ==
    /\ InLoop
    /\ At(i).token_type = "IDENTIFIER"
    /\ diagnostics' =
          IF AnyScopeContains(scope_stack, At(i).lexeme)
          THEN diagnostics
          ELSE Append(diagnostics, Generate(At(i), "Unknown identifier", At(i).lexeme))
    /\ i' = i + 1
    /\ UNCHANGED <<framing_vars, entry, build, pc, panic, frame, scope_stack, stack_at_call,
                   tokens, token, output>>

\* The arm for every other token type.
OtherStep ==
    /\ InLoop
    /\ At(i).token_type \notin {"LET", "IDENTIFIER"}
    /\ i' = i + 1
    /\ UNCHANGED <<framing_vars, entry, build, pc, panic, frame, scope_stack, stack_at_call,
                   tokens, token, diagnostics, output>>

\* while i < tokens.len() is false: find_unknown_words returns.
LoopExit ==
    /\ pc = "loop"
    /\ i >= Len(tokens)
    /\ pc' = "respond"
    /\ UNCHANGED <<framing_vars, entry, build, panic, frame, scope_stack, stack_at_call,
                   check_vars, output>>

WalkStepNestingLets ==
    /\ pc = "walk"
    /\ i < Len(tokens)
    /\ At(i).token_type # "SEMICOLON"
    /\ diagnostics' =
          IF /\ At(i).token_type = "IDENTIFIER"
             /\ ~InnermostContains(scope_stack, At(i).lexeme)
          THEN Append(diagnostics,
                      Generate(WalkDiagToken(entry, token, At(i)),
                               "Unknown identifier", At(i).lexeme))
          ELSE diagnostics
    /\ i' = i + 1
    /\ scope_stack' = IF At(i).token_type = "LET" THEN PushScope(scope_stack, {})
                      ELSE scope_stack
    /\ UNCHANGED <<framing_vars, entry, build, pc, panic, frame, stack_at_call,
                   tokens, token, output>>

\* One iteration of the body walk: analysis/mod.rs 169-181, main.rs 225-235.
WalkStep ==
    /\ pc = "walk"
    /\ i < Len(tokens)
    /\ At(i).token_type # "SEMICOLON"
    /\ diagnostics' =
          IF /\ At(i).token_type = "IDENTIFIER"
             /\ ~InnermostContains(scope_stack, At(i).lexeme)
          THEN Append(diagnostics,
                      Generate(WalkDiagToken(entry, token, At(i)),
                               "Unknown identifier", At(i).lexeme))
          ELSE diagnostics
    /\ i' = i + 1
    /\ UNCHANGED <<framing_vars, entry, build, pc, panic, frame, scope_stack, stack_at_call,
                   tokens, token, output>>

\* tokens[i] with i = tokens.len(): the index is out of bounds and the
\* process panics (the test i > tokens.len() after the loop is never reached).
WalkPanic ==
    /\ pc = "walk"
    /\ i >= Len(tokens)
    /\ Abort("index out of bounds")
    /\ UNCHANGED <<framing_vars, entry, build, frame, scope_stack, stack_at_call, check_vars,
                   output>>

\* The walk reaches the semicolon: the scope is popped and the outer loop
\* goes on after it (analysis/mod.rs 183-190 and 207, main.rs 237-244, 261).
WalkEnd ==
    /\ pc = "walk"
    /\ i < Len(tokens)
    /\ At(i).token_type = "SEMICOLON"
    /\ IF i > Len(tokens)
       THEN /\ pc' = "respond"
            /\ diagnostics' =
                   Append(diagnostics,
                          Generate(token, "Unexpected end of input after let statement",
                                   <<>>))
            /\ UNCHANGED <<scope_stack, i>>
       ELSE /\ pc' = "loop"
            /\ scope_stack' = PopScope(scope_stack)
            /\ i' = i + 1
            /\ UNCHANGED diagnostics
    /\ token' = NoToken
    /\ UNCHANGED <<framing_vars, entry, build, panic, frame, stack_at_call, tokens, output>>

\* find_unknown_words has returned: the notification is built from its
\* diagnostics and printed as a frame (main.rs 134-145) or returned as
\* Ok (analysis/mod.rs 85-101, where the call's scope stack is dropped).
Respond ==
    /\ pc = "respond"
    /\ pc' = "done"
    /\ output' = Append(output, [kind |-> "textDocument/publishDiagnostics",
                                 diagnostics |-> diagnostics])
    /\ scope_stack' = IF entry = "main" THEN scope_stack ELSE <<>>
    /\ tokens' = <<>>
    /\ i' = 0
    /\ token' = NoToken
    /\ UNCHANGED <<framing_vars, entry, build, panic, frame, stack_at_call, diagnostics>>

\* The handling of the frame is over: the session loop goes back to
\* read_line (main.rs 71-72); the host is free to call run_analysis again.
NextFrame ==
    /\ pc = "done"
    /\ pc' = "read"
    /\ frame' = NoFrame
    /\ output' = <<>>
    /\ diagnostics' = <<>>
    /\ stack_at_call' = <<>>
    /\ UNCHANGED <<framing_vars, entry, build, panic, scope_stack, tokens, i, token>>

Next ==
    \/ ReadFrame
    \/ ReadEOF
    \/ LetStep
    \/ IdentStep
    \/ OtherStep
    \/ LoopExit
    \/ WalkStep
    \/ WalkPanic
    \/ WalkEnd
    \/ Respond
    \/ NextFrame

Spec == Init /\ [][Next]_vars

\* ------------------------------------------- find_unknown_words as a whole
RECURSIVE WalkBody(_, _, _, _, _, _)
\* The body walk from tokens[k] on (k 0-based): [i, diagnostics, panic].
WalkBody(ent, toks, k, let_token, stack, diags) ==
    IF k >= Len(toks)
    THEN [i |-> k, diagnostics |-> diags, panic |-> "index out of bounds"]
    ELSE IF toks[k + 1].token_type = "SEMICOLON"
    THEN [i |-> k, diagnostics |-> diags, panic |-> ""]
    ELSE WalkBody(ent, toks, k + 1, let_token, stack,
                  IF /\ toks[k + 1].token_type = "IDENTIFIER"
                     /\ ~InnermostContains(stack, toks[k + 1].lexeme)
                  THEN Append(diags,
                              Generate(WalkDiagToken(ent, let_token, toks[k + 1]),
                                       "Unknown identifier", toks[k + 1].lexeme))
                  ELSE diags)

RECURSIVE CheckLoop(_, _, _, _, _, _)
\* The while loop of find_unknown_words from tokens[k] on (k 0-based), to
\* its return or its panic: [diagnostics, scope_stack, panic].
CheckLoop(ent, toks, k, stack, diags, bld) ==
    LET Return(ds, st) == [diagnostics |-> ds, scope_stack |-> st, panic |-> ""]
        Panic(ds, st, where) ==
            [diagnostics |-> ds, scope_stack |-> st, panic |-> where]
    IN  IF k >= Len(toks) THEN Return(diags, stack)
        ELSE IF toks[k + 1].token_type = "LET"
        THEN LET let_token == toks[k + 1] IN
             IF k + 1 >= Len(toks)
             THEN Return(Append(diags, Generate(let_token, EndAfterLetMessage(ent),
                                                <<>>)), stack)
             ELSE IF toks[k + 2].token_type # "IDENTIFIER"
             THEN Return(Append(diags,
                                Generate(let_token,
                                         "Expected identifier after 'let', found",
                                         toks[k + 2].lexeme)), stack)
             ELSE IF InnermostContains(stack, toks[k + 2].lexeme)
             THEN Return(Append(diags,
                                Generate(let_token,
                                         "Duplicate identifier in let statement",
                                         toks[k + 2].lexeme)), stack)
             ELSE LET bound == InsertName(stack, toks[k + 2].lexeme) IN
                  IF k + 2 >= Len(toks)
                  THEN Return(Append(diags,
                                     Generate(let_token,
                                              "Unexpected end of input after identifier in let statement",
                                              <<>>)), bound)
                  ELSE LET scan == handle_let_statement(toks, k + 2, diags, bld) IN
                       IF scan.panic
                       THEN Panic(scan.diagnostics, bound,
                                  "attempt to subtract with overflow")
                       ELSE LET pushed == PushScope(bound, scan.added_words)
                                walk == WalkBody(ent, toks, k + 2, let_token, pushed,
                                                 scan.diagnostics)
                            IN  IF walk.panic # ""
                                THEN Panic(walk.diagnostics, pushed, walk.panic)
                                ELSE CheckLoop(ent, toks, walk.i + 1,
                                               PopScope(pushed), walk.diagnostics,
                                               bld)
        ELSE IF toks[k + 1].token_type = "IDENTIFIER"
        THEN CheckLoop(ent, toks, k + 1, stack,
                       IF AnyScopeContains(stack, toks[k + 1].lexeme) THEN diags
                       ELSE Append(diags, Generate(toks[k + 1], "Unknown identifier",
                                                   toks[k + 1].lexeme)),
                       bld)
        ELSE CheckLoop(ent, toks, k + 1, stack, diags, bld)

\* find_unknown_words of entry point ent, after lex has returned toks, on
\* the scope stack it is given.
find_unknown_words(ent, toks, stack, bld) ==
    CheckLoop(ent, toks, 0, stack, <<>>, bld)

\* ----------------------------------------------------------------- framing
\* The bytes of a character in UTF-8: the two bytes of é are 0xC3 0xA9.
Utf8(c) == IF c = "é" THEN <<"C3", "A9">> ELSE <<c>>

RECURSIVE Utf8Bytes(_)
\* String::as_bytes()
Utf8Bytes(text) ==
    IF text = <<>> THEN <<>> ELSE Utf8(Head(text)) \o Utf8Bytes(Tail(text))

RECURSIVE Utf8Valid(_)
\* The bytes are well-formed UTF-8.
Utf8Valid(bytes) ==
    IF bytes = <<>> THEN TRUE
    ELSE IF Head(bytes) = "C3"
    THEN Len(bytes) >= 2 /\ bytes[2] = "A9" /\ Utf8Valid(Tail(Tail(bytes)))
    ELSE Head(bytes) # "A9" /\ Utf8Valid(Tail(bytes))

RECURSIVE FromUtf8(_)
\* String::from_utf8 of well-formed bytes.
FromUtf8(bytes) ==
    IF bytes = <<>> THEN <<>>
    ELSE IF Head(bytes) = "C3" THEN <<"é">> \o FromUtf8(Tail(Tail(bytes)))
    ELSE <<Head(bytes)>> \o FromUtf8(Tail(bytes))

\* An I/O error the reader meets at this place of its input.
IoError == "io::Error"

\* "Content-Length: "
ContentLengthPrefix ==
    <<"C", "o", "n", "t", "e", "n", "t", "-", "L", "e", "n", "g", "t", "h",
      ":", " ">>

DigitChars == <<"0", "1", "2", "3", "4", "5", "6", "7", "8", "9">>

RECURSIVE ToDigits(_)
\* The {} of a usize in println!.
ToDigits(n) ==
    IF n < 10 THEN <<DigitChars[n + 1]>>
    ELSE ToDigits(n \div 10) \o <<DigitChars[(n % 10) + 1]>>

DigitValue(c) == CHOOSE d \in 0..9 : DigitChars[d + 1] = c

RECURSIVE ParseDigits(_, _)
ParseDigits(digits, acc) ==
    IF digits = <<>> THEN acc
    ELSE ParseDigits(Tail(digits), 10 * acc + DigitValue(Head(digits)))

\* str::parse::<usize>(): -1 stands for Err.
ParseUsize(text) ==
    IF text # <<>> /\ \A k \in 1..Len(text) : text[k] \in Digits
    THEN ParseDigits(text, 0)
    ELSE -1

Whitespace == {" ", "\t", "\r", "\n"}

RECURSIVE TrimStart(_)
TrimStart(text) ==
    IF text # <<>> /\ Head(text) \in Whitespace THEN TrimStart(Tail(text))
    ELSE text

RECURSIVE TrimEnd(_)
TrimEnd(text) ==
    IF text # <<>> /\ text[Len(text)] \in Whitespace
    THEN TrimEnd(SubSeq(text, 1, Len(text) - 1))
    ELSE text

\* str::trim()
Trim(text) == TrimEnd(TrimStart(text))

\* str::starts_with
StartsWith(text, prefix) ==
    Len(text) >= Len(prefix) /\ SubSeq(text, 1, Len(prefix)) = prefix

\* println!("Content-Length: {}\r\n\r\n{}", response_str.len(), response_str):
\* the bytes of one frame on the channel; println! ends them with a newline.
WriteFrame(text) ==
    ContentLengthPrefix \o ToDigits(ByteLen(text)) \o <<"\r", "\n", "\r", "\n">>
        \o Utf8Bytes(text) \o <<"\n">>

RECURSIVE WriteFrames(_)
WriteFrames(texts) ==
    IF texts = <<>> THEN <<>>
    ELSE WriteFrame(Head(texts)) \o WriteFrames(Tail(texts))

\* The place of the first newline or error of the stream, 0 if it has none.
LineEnd(stream) ==
    IF \E k \in 1..Len(stream) : stream[k] \in {"\n", IoError}
    THEN CHOOSE k \in 1..Len(stream) :
            /\ stream[k] \in {"\n", IoError}
            /\ \A j \in 1..(k - 1) : stream[j] \notin {"\n", IoError}
    ELSE 0

\* reader.read_line(&mut buffer).unwrap_or(0): n is the count it yields, 0 at
\* the end of the input, on an I/O error and on bytes that are not UTF-8.
ReadLine(stream) ==
    LET k == LineEnd(stream)
        bytes == IF k = 0 THEN stream ELSE SubSeq(stream, 1, k)
        rest == IF k = 0 THEN <<>> ELSE SubSeq(stream, k + 1, Len(stream))
    IN  IF stream = <<>> \/ (k # 0 /\ stream[k] = IoError) \/ ~Utf8Valid(bytes)
        THEN [n |-> 0, buffer |-> <<>>, rest |-> stream]
        ELSE [n |-> Len(bytes), buffer |-> FromUtf8(bytes), rest |-> rest]

\* The bytes reader.read can deliver before the end of input or an error.
Available(stream) ==
    IF \E k \in 1..Len(stream) : stream[k] = IoError
    THEN SubSeq(stream, 1, (CHOOSE k \in 1..Len(stream) :
                               /\ stream[k] = IoError
                               /\ \A j \in 1..(k - 1) : stream[j] # IoError) - 1)
    ELSE stream

Min(a, b) == IF a < b THEN a ELSE b

PayloadAlwaysComplete(total_read, len) == TRUE

\* main.rs 109: the negation of `total_read != len`.
PayloadComplete(total_read, len) == total_read = len

\* The payload buffer after the read loop: vec![0; len] with the bytes read
\* in front.
PayloadBuffer(bytes, len) ==
    [k \in 1..len |-> IF k <= Len(bytes) THEN bytes[k] ELSE "NUL"]

\* Payloads put on the channel: {}, "é", a, and the empty text.
Payload_Object == <<"{", "}">>

Payload_String == <<"\"", "é", "\"">>

Payload_Word == <<"a">>

FramePayloads == {Payload_Object, Payload_String, Payload_Word, <<>>}

\* serde_json::from_str::<Value>(&message) and value.get("method"): of the
\* texts the channel carries, {} and "é" are JSON values, neither with a
\* method; no other text, and no part of one, is JSON.
Decode(message) ==
    IF message \in {Payload_Object, Payload_String}
    THEN Frame("ok", "none", "absent", <<>>)
    ELSE Frame("invalid", "none", "absent", <<>>)

RECURSIVE PayloadSeqs(_)
PayloadSeqs(n) ==
    IF n = 0 THEN {<<>>}
    ELSE LET shorter == PayloadSeqs(n - 1)
         IN  shorter \cup {Append(xs, x) : xs \in shorter, x \in FramePayloads}

\* The session of main.rs started on a channel that holds the frames of
\* `written`, whole, or cut short by the end of input or by an I/O error.
FramingInit ==
    /\ entry = "main"
    /\ build \in {"debug", "release"}
    /\ pc = "read"
    /\ panic = ""
    /\ frame = NoFrame
    /\ scope_stack = <<generate_globals>>
    /\ stack_at_call = <<>>
    /\ tokens = <<>>
    /\ i = 0
    /\ token = NoToken
    /\ diagnostics = <<>>
    /\ output = <<>>
    /\ received = <<>>
    /\ stderr = ""
    /\ written \in PayloadSeqs(MaxFrames)
    /\ \E ending \in {<<>>, <<IoError>>} :
          \/ /\ intact = TRUE
             /\ stdin = WriteFrames(written) \o ending
          \/ /\ intact = FALSE
             /\ \E n \in 0..(Len(WriteFrames(written)) - 1) :
                   stdin = SubSeq(WriteFrames(written), 1, n) \o ending

\* The reader stops: pc, stderr and the input left are set, nothing else.
ReaderStops(why, rest) ==
    /\ pc' = "eof"
    /\ stderr' = why
    /\ stdin' = rest
    /\ UNCHANGED <<entry, build, panic, frame, scope_stack, stack_at_call,
                   check_vars, output, written, intact, received>>

\* main.rs 74-77: read_line yields 0.
FrameEOF ==
    /\ pc = "read"
    /\ ReadLine(stdin).n = 0
    /\ ReaderStops("EOF", stdin)

\* main.rs 79-80: a line that is no Content-Length header is dropped.
FrameSkipLine ==
    /\ pc = "read"
    /\ ReadLine(stdin).n # 0
    /\ ~StartsWith(Trim(ReadLine(stdin).buffer), ContentLengthPrefix)
    /\ stdin' = ReadLine(stdin).rest
    /\ UNCHANGED <<entry, build, pc, panic, frame, scope_stack, stack_at_call,
                   check_vars, output, written, intact, received, stderr>>

\* main.rs 79-154: a header line, the line after it, the payload, and the
\* dispatch of the message.
FrameRead ==
    /\ pc = "read"
    /\ ReadLine(stdin).n # 0
    /\ StartsWith(Trim(ReadLine(stdin).buffer), ContentLengthPrefix)
    /\ LET line == Trim(ReadLine(stdin).buffer)
           len == ParseUsize(Trim(SubSeq(line, Len(ContentLengthPrefix) + 1,
                                         Len(line))))
           blank == ReadLine(ReadLine(stdin).rest)
           bytes == Available(blank.rest)
           total_read == Min(len, Len(bytes))
           payload == PayloadBuffer(bytes, len)
           after == SubSeq(blank.rest, total_read + 1, Len(blank.rest))
       IN  IF len < 0
           THEN /\ Abort("parse::<usize>().unwrap()")
                /\ stdin' = ReadLine(stdin).rest
                /\ UNCHANGED <<entry, build, frame, scope_stack, stack_at_call,
                               check_vars, output, written, intact, received,
                               stderr>>
           ELSE IF blank.n = 0
           THEN ReaderStops("Error: Expected blank line after Content-Length header.",
                            blank.rest)
           ELSE IF ~PayloadComplete(total_read, len)
           THEN ReaderStops("Error: Expected {} bytes, but read {} bytes.", after)
           ELSE IF ~Utf8Valid(payload)
           THEN /\ Abort("String::from_utf8(payload).unwrap()")
                /\ stdin' = after
                /\ UNCHANGED <<entry, build, frame, scope_stack, stack_at_call,
                               check_vars, output, written, intact, received,
                               stderr>>
           ELSE /\ received' = Append(received, FromUtf8(payload))
                /\ frame' = Decode(FromUtf8(payload))
                /\ MainDispatch(Decode(FromUtf8(payload)))
                /\ stdin' = after
                /\ UNCHANGED <<entry, build, written, intact, stderr>>

FramingNext ==
    \/ FrameEOF
    \/ FrameSkipLine
    \/ FrameRead
    \/ NextFrame

FramingSpec == FramingInit /\ [][FramingNext]_vars


\* ------------------------------------------------------------ properties
Last(seq) == seq[Len(seq)]

Notifications(out) ==
    {k \in 1..Len(out) : out[k].kind = "textDocument/publishDiagnostics"}

StartOf(tok) == [line |-> tok.line, character |-> tok.column]

\* The pass is inside find_unknown_words, or the process died there.
InPass ==
    \/ pc \in {"loop", "walk", "respond"}
    \/ pc = "panicked" /\ panic \in {"index out of bounds",
                                     "attempt to subtract with overflow"}

\* C1: every didOpen whose envelope decodes is answered by exactly one
\* textDocument/publishDiagnostics notification, also when its text has an
\* ill-formed or unterminated let: handling it never aborts, nothing is
\* published before the check returns, and one notification has been
\* written when the handling is done.  Stated for the texts lex returns
\* tokens for, so that it does not rest on C4.
C1_DidOpenPublishesOnce ==
    DecodesDidOpen(entry, frame) /\ ~lex(frame.text).panic =>
        /\ pc # "panicked"
        /\ Cardinality(Notifications(output)) = IF pc = "done" THEN 1 ELSE 0

\* C2: a let with no semicolon before the end of the tokens does not crash
\* the check or read out of bounds: a body walk that has reached the end of
\* the tokens stops there, and the pass returns with one more diagnostic.
C2_UnterminatedLetReported ==
    [][pc = "walk" /\ i >= Len(tokens) =>
         /\ pc' = "respond"
         /\ panic' = ""
         /\ Len(diagnostics') = Len(diagnostics) + 1]_vars

\* C3: a payload that is not valid JSON, or has no string method, or has no
\* params, does not abort the process: handling it ends with one synthetic
\* diagnostic of the zero range as its only output.
C3_DecodeErrorReported ==
    (frame.json = "invalid"
       \/ (frame.json = "ok" /\ (frame.method = "none" \/ frame.params = "absent")))
    => /\ pc # "panicked"
       /\ (pc = "done" =>
             /\ Len(output) = 1
             /\ Len(output[1].diagnostics) = 1
             /\ output[1].diagnostics[1].range = ZeroRange)

\* C4: tokenize is total: for every document text handed to it, lex returns
\* a token sequence instead of panicking.
C4_TokenizeTotal ==
    (frame.json = "ok" /\ frame.method = "textDocument/didOpen"
       /\ frame.params \in {"object", "string"})
    => ~lex(frame.text).panic

C6_GlobalScopeNeverPopped ==
    InPass =>
        /\ Len(scope_stack) >= 1
        /\ generate_globals \subseteq scope_stack[1]
        /\ stack_at_call[1] \subseteq scope_stack[1]

\* The body walk of a let, in a document analyzed after another one bound a
\* name: a parameter scope lies on top of the global scope.
C6_Witness ==
    /\ pc = "walk"
    /\ Len(scope_stack) = 2
    /\ stack_at_call[1] # generate_globals

\* C7: when find_unknown_words returns, the scope stack is as deep as it was
\* when the pass was called.
C7_DepthRestoredOnReturn ==
    pc = "respond" => Len(scope_stack) = Len(stack_at_call)

\* The pass has run to the end of the tokens after a let that was accepted
\* and whose semicolon was reached.
C7_Witness ==
    /\ pc = "respond"
    /\ i >= Len(tokens)
    /\ scope_stack[1] # stack_at_call[1]
    /\ \E k \in 1..Len(tokens) : tokens[k].token_type = "SEMICOLON"

\* C8: a let that is not followed by an identifier, or whose identifier is
\* in the innermost scope, adds one diagnostic at the let and ends the
\* pass; the list returned ends with that diagnostic, it is published as it
\* is and the handling of the frame ends normally.
C8_RejectedLetStopsPass ==
    [][/\ (InLoop /\ At(i).token_type = "LET" /\ i + 1 < Len(tokens)
             /\ (\/ At(i + 1).token_type # "IDENTIFIER"
                 \/ At(i + 1).lexeme \in scope_stack[Len(scope_stack)])
             => /\ pc' = "respond"
                /\ Len(diagnostics') = Len(diagnostics) + 1
                /\ SubSeq(diagnostics', 1, Len(diagnostics)) = diagnostics
                /\ Last(diagnostics').range.start = StartOf(At(i))
                /\ Last(diagnostics').message =
                       (IF At(i + 1).token_type # "IDENTIFIER"
                        THEN "Expected identifier after 'let', found"
                        ELSE "Duplicate identifier in let statement")
                /\ tokens' = tokens)
       /\ (pc = "respond"
             => /\ pc' = "done"
                /\ panic' = ""
                /\ Last(output').kind = "textDocument/publishDiagnostics"
                /\ Last(output').diagnostics = diagnostics)]_vars

\* A pass ended by a rejected let with tokens after it left unexamined.
C8_Witness ==
    /\ pc = "respond"
    /\ i + 1 < Len(tokens)
    /\ At(i - 1).token_type = "LET"
    /\ diagnostics # <<>>
    /\ Last(diagnostics).range.start = StartOf(At(i - 1))

\* The second let token of `let x -> x; let x -> x;`.
SecondLet == lex(Text_TwoLets).tokens[6]

\* C9: analyzing `let x -> x; let x -> x;` on a fresh scope stack ends with
\* a duplicate-identifier diagnostic at the position of the second let.
C9_DuplicateTopLevelLet ==
    (pc = "respond" /\ frame.text = Text_TwoLets
       /\ stack_at_call = <<generate_globals>>)
    => /\ SecondLet.token_type = "LET"
       /\ diagnostics # <<>>
       /\ Last(diagnostics).message = "Duplicate identifier in let statement"
       /\ Last(diagnostics).arg = <<"x">>
       /\ Last(diagnostics).range.start = StartOf(SecondLet)
       /\ Cardinality({k \in 1..Len(diagnostics) :
              diagnostics[k].range.start = StartOf(SecondLet)}) = 1

C9_Witness ==
    /\ pc = "respond"
    /\ frame.text = Text_TwoLets
    /\ stack_at_call = <<generate_globals>>
    /\ Len(diagnostics) >= 1

\* C10: an identifier token examined by the outer loop adds a diagnostic if
\* and only if its name is in no scope of the stack; then it adds exactly
\* one, an unknown identifier starting at the token's line and column.  For
\* `y;` with y unbound the pass returns one diagnostic, at line 1 and y's
\* column.
C10_TopLevelUnknownIdentifier ==
    /\ [][InLoop /\ At(i).token_type = "IDENTIFIER" =>
            IF \A k \in 1..Len(scope_stack) : At(i).lexeme \notin scope_stack[k]
            THEN /\ Len(diagnostics') = Len(diagnostics) + 1
                 /\ SubSeq(diagnostics', 1, Len(diagnostics)) = diagnostics
                 /\ Last(diagnostics').message = "Unknown identifier"
                 /\ Last(diagnostics').arg = At(i).lexeme
                 /\ Last(diagnostics').range.start = StartOf(At(i))
            ELSE diagnostics' = diagnostics]_vars
    /\ [](pc = "respond" /\ frame.text = Text_Y
            /\ <<"y">> \notin stack_at_call[1]
          => /\ Len(diagnostics) = 1
             /\ diagnostics[1].message = "Unknown identifier"
             /\ diagnostics[1].range.start = [line |-> 1, character |-> 1])

C10_Witness ==
    /\ pc = "respond"
    /\ frame.text = Text_Y
    /\ Len(diagnostics) = 1
    /\ diagnostics[1].arg = <<"y">>


\* The five reserved words.
ReservedWords ==
    {<<"t", "r", "u", "e">>, <<"f", "a", "l", "s", "e">>, <<"i", "f">>,
     <<"e", "l", "s", "e">>, <<"l", "e", "t">>}

\* C11: no unknown-identifier diagnostic is ever reported for true, false,
\* if, else or let, at top level or inside a let, whatever the scope stack
\* holds; and `if true else false;` is analyzed with no diagnostic at all.
C11_ReservedWordsNeverUnknown ==
    /\ \A k \in 1..Len(diagnostics) :
          diagnostics[k].message = "Unknown identifier"
             => diagnostics[k].arg \notin ReservedWords
    /\ (pc = "respond" /\ frame.text = Text_IfElse => diagnostics = <<>>)
    /\ (pc = "respond" /\ frame.text = Text_LetTrue /\ i >= Len(tokens)
          => diagnostics = <<>>)

\* `if true else false;` has been analyzed to its end.
C11_Witness ==
    /\ pc = "respond"
    /\ frame.text = Text_IfElse
    /\ i >= Len(tokens)
    /\ diagnostics = <<>>


\* The reader is about to read a Content-Length header and the line after
\* it, and then fewer bytes than the header declares can be read.
ShortPayloadAhead ==
    /\ pc = "read"
    /\ ReadLine(stdin).n # 0
    /\ StartsWith(Trim(ReadLine(stdin).buffer), ContentLengthPrefix)
    /\ LET line == Trim(ReadLine(stdin).buffer)
           len == ParseUsize(Trim(SubSeq(line, Len(ContentLengthPrefix) + 1,
                                         Len(line))))
           blank == ReadLine(ReadLine(stdin).rest)
       IN  /\ len >= 0
           /\ blank.n # 0
           /\ Len(Available(blank.rest)) < len

\* C12: when fewer payload bytes than the declared Content-Length can be
\* read, because the input ends or a read fails, the session loop ends there:
\* no message is yielded or dispatched, nothing is written, the scope stack
\* is as it was, and once the loop has ended no step follows, so no later
\* frame is read and the read is not tried again.
C12_ShortPayloadEndsSession ==
    /\ [][ShortPayloadAhead
            => /\ pc' = "eof"
               /\ panic' = ""
               /\ received' = received
               /\ frame' = frame
               /\ output' = output
               /\ scope_stack' = scope_stack]_vars
    /\ [][pc # "eof"]_vars

\* The loop ended on a payload cut short, after it had handled a frame.
C12_Witness ==
    /\ pc = "eof"
    /\ stderr = "Error: Expected {} bytes, but read {} bytes."
    /\ Len(written) = 2
    /\ received = <<written[1]>>
    /\ stdin = <<IoError>>

IsPrefix(a, b) == Len(a) <= Len(b) /\ a = SubSeq(b, 1, Len(a))

\* C13: the payloads written as frames (Content-Length with the byte length,
\* blank line, payload) come back from the frame reader unchanged and in
\* order: what the reader has yielded is always the front of what was
\* written, a channel that holds the frames whole never makes the reader
\* stop short or fail to decode, and when the session on such a channel is
\* over the reader has yielded every payload that was written.
C13_FramingRoundTrip ==
    /\ IsPrefix(received, written)
    /\ intact
          => /\ stderr \in {"", "EOF"}
             /\ panic \notin {"parse::<usize>().unwrap()",
                              "String::from_utf8(payload).unwrap()"}
             /\ (pc \in {"eof", "panicked"} => received = written)


\* find_unknown_words holds the tokens lex returned.
Lexed == pc \in {"loop", "walk", "respond"}

TokenTypes(toks) == [k \in 1..Len(toks) |-> toks[k].token_type]

\* C14: a line comment runs up to the next newline and leaves it to be
\* lexed: the comment gives no token and the newline still counts a line, so
\* `// comment` followed by a newline and `let` lexes to let and EOF with
\* let on line 2.
C14_CommentKeepsNewline ==
    Lexed /\ frame.text = Text_CommentLet
       => /\ TokenTypes(tokens) = <<"LET", "EOF">>
          /\ tokens[1].line = 2

Lexeme_Arrow == <<"-", ">">>

Lexeme_Pipe == <<"|", ">">>

Lexeme_Bar == <<"|">>

\* The place (1-based) of the first token after the first `from` whose
\* lexeme is one of `stops`, Len(toks) + 1 if there is none.
FirstAt(toks, from, stops) ==
    IF \E k \in (from + 1)..Len(toks) : toks[k].lexeme \in stops
    THEN CHOOSE k \in (from + 1)..Len(toks) :
            /\ toks[k].lexeme \in stops
            /\ \A j \in (from + 1)..(k - 1) : toks[j].lexeme \notin stops
    ELSE Len(toks) + 1

\* The identifiers after the first `from` tokens and before the first of
\* `stops`.
ParamsUpTo(toks, from, stops) ==
    {toks[k].lexeme : k \in {j \in (from + 1)..(FirstAt(toks, from, stops) - 1) :
                                toks[j].token_type = "IDENTIFIER"}}

\* An accepted let pushes as its parameter scope the identifiers up to the
\* first of `stops`.
ScanStopsAt(stops) ==
    pc = "loop" /\ pc' = "walk"
       => Last(scope_stack') = ParamsUpTo(tokens, i + 2, stops)

\* C15 as amended: `->` is one token of kind ARROW and `|>` is one token of
\* kind PIPE; a `|` that no `>` follows is of kind ARROW. The parameter scan
\* of a let ends at the first `->` or lone `|`, and goes on past a `|>`.
C15_ArrowAndPipe ==
    /\ [](Lexed => \A k \in 1..Len(tokens) :
             /\ tokens[k].lexeme = Lexeme_Arrow => tokens[k].token_type = "ARROW"
             /\ tokens[k].lexeme = Lexeme_Bar => tokens[k].token_type = "ARROW"
             /\ tokens[k].lexeme = Lexeme_Pipe => tokens[k].token_type = "PIPE"
             /\ tokens[k].token_type = "ARROW"
                   => tokens[k].lexeme \in {Lexeme_Arrow, Lexeme_Bar}
             /\ tokens[k].token_type = "PIPE" => tokens[k].lexeme = Lexeme_Pipe)
    /\ [][ScanStopsAt({Lexeme_Arrow, Lexeme_Bar})]_vars

\* The let of `let x a |> b;` was accepted: its scan went past the `|>`.
C15_Witness ==
    /\ pc = "walk"
    /\ frame.text = Text_PipeLet
    /\ tokens[4].token_type = "PIPE"
    /\ Last(scope_stack) = {<<"a">>, <<"b">>}

\* C15 as the claim has it: `->`, `|>` and a lone `|` are all one token of
\* kind ARROW, and each of them ends the parameter scan of a let.
C15_AllThreeAreArrows ==
    /\ [](Lexed => \A k \in 1..Len(tokens) :
             tokens[k].lexeme \in {Lexeme_Arrow, Lexeme_Pipe, Lexeme_Bar}
                => tokens[k].token_type = "ARROW")
    /\ [][ScanStopsAt({Lexeme_Arrow, Lexeme_Pipe, Lexeme_Bar})]_vars

\* C16: whenever lex returns, its last token is the EOF token, no token
\* before it is an EOF token, and every token before it has a lexeme that is
\* not empty.
C16_EofLastAndOnly ==
    Lexed
       => /\ tokens # <<>>
          /\ Last(tokens).token_type = "EOF"
          /\ \A k \in 1..(Len(tokens) - 1) :
                /\ tokens[k].token_type # "EOF"
                /\ tokens[k].lexeme # <<>>

\* lex has returned the tokens of `let x -> x; let x -> x;`.
C16_Witness ==
    /\ pc = "loop"
    /\ i = 0
    /\ frame.text = Text_TwoLets
    /\ Len(tokens) = 11

RECURSIVE FirstUnescapedQuote(_, _)
\* The place (1-based) at or after k of the first quote of s that no
\* backslash escapes, 0 if there is none.
FirstUnescapedQuote(s, k) ==
    IF k > Len(s) THEN 0
    ELSE IF s[k] = "\\" THEN FirstUnescapedQuote(s, k + 2)
    ELSE IF s[k] = "\"" THEN k
    ELSE FirstUnescapedQuote(s, k + 1)

\* C17: a string literal is one STRING token that runs from its opening
\* quote to the first quote after it that no backslash escapes, so a quote
\* after a backslash stays inside the literal: the text "a\"b" lexes to one
\* STRING token with the whole text as its lexeme, and EOF.
C17_EscapedQuoteInsideString ==
    /\ Lexed
          => \A k \in 1..Len(tokens) :
                tokens[k].token_type = "STRING"
                   => /\ Head(tokens[k].lexeme) = "\""
                      /\ FirstUnescapedQuote(tokens[k].lexeme, 2)
                            = Len(tokens[k].lexeme)
    /\ frame.text = Text_EscapedQuote
          => /\ panic # "lex"
             /\ Lexed => /\ TokenTypes(tokens) = <<"STRING", "EOF">>
                         /\ tokens[1].lexeme = Text_EscapedQuote

\* lex has returned the tokens of "a\"b".
C17_Witness ==
    /\ pc = "loop"
    /\ frame.text = Text_EscapedQuote
    /\ Len(tokens) = 2
    /\ tokens[1].lexeme[4] = "\""

\* A text of characters lex pushes a token for or skips one by one: no
\* comment and nothing outside ASCII.
PlainText(text) == \A k \in 1..Len(text) : text[k] \notin {"/"} \cup NonAscii

RECURSIVE SkipBlanks(_, _)
\* The first place (0-based) at or after pos that is not a skipped character.
SkipBlanks(text, pos) ==
    IF pos < Len(text) /\ text[pos + 1] \in Whitespace \cup {"\\"}
    THEN SkipBlanks(text, pos + 1)
    ELSE pos

RECURSIVE TokenStart(_, _, _)
\* The place (0-based) in text of the first character of the k-th token.
TokenStart(text, toks, k) ==
    SkipBlanks(text, IF k = 1 THEN 0
                     ELSE TokenStart(text, toks, k - 1) + Len(toks[k - 1].lexeme))

\* The number of characters of text before the line that place pos is on.
LineStart(text, pos) ==
    IF \E j \in 1..pos : text[j] = "\n"
    THEN CHOOSE j \in 1..pos :
            text[j] = "\n" /\ \A m \in (j + 1)..pos : text[m] # "\n"
    ELSE 0

\* C18: the column of every token is the 1-based offset, within its line, of
\* the first character of its lexeme: in `let x` the x has column 5, and a
\* token after a two-character operator has its true offset.
C18_ColumnIsOffsetInLine ==
    Lexed /\ PlainText(frame.text)
       => \A k \in 1..(Len(tokens) - 1) :
             tokens[k].column
                = TokenStart(frame.text, tokens, k)
                     - LineStart(frame.text, TokenStart(frame.text, tokens, k)) + 1

\* A request the entry point takes as well formed: main looks at no params
\* but those of didOpen; run_analysis wants params, and for initialize
\* params that deserialize.
WellFormedFor(ent, f) ==
    \/ ent = "main"
    \/ /\ f.params # "absent"
       /\ f.method = "initialize" => f.params = "object"

\* C19: handling an initialize request, or a request of a method other than
\* initialize and textDocument/didOpen, ends without a panic and ready for
\* the next frame, with the scope stack as it was, and puts out no frame:
\* main writes nothing, run_analysis returns the null response, and neither
\* gives a notification or a diagnostic.
C19_OtherMethodsHaveNoEffect ==
    [][(/\ pc = "read"
        /\ frame'.json = "ok"
        /\ frame'.method \in {"initialize", "other"}
        /\ WellFormedFor(entry, frame'))
          => /\ pc' = "done"
             /\ panic' = ""
             /\ scope_stack' = scope_stack
             /\ output' = IF entry = "main" THEN <<>>
                          ELSE <<[kind |-> "Ok(null)", diagnostics |-> <<>>]>>
             /\ UNCHANGED check_vars]_vars

\* main has handled an initialize request with names bound in its stack.
C19_Witness ==
    /\ entry = "main"
    /\ pc = "done"
    /\ frame.method = "initialize"
    /\ output = <<>>
    /\ scope_stack = <<generate_globals \cup {<<"x">>}>>

\* C20: in the body walk an identifier is looked up in the parameter scope
\* the let has just pushed and in no other: it is reported as unknown exactly
\* when that scope does not hold it, also when an outer scope does, as for
\* the let's own name in `let x -> x;`.
C20_BodyWalkSeesOnlyParameters ==
    /\ [][(pc = "walk" /\ pc' = "walk" /\ At(i).token_type = "IDENTIFIER")
             => IF At(i).lexeme \in Last(scope_stack)
                THEN diagnostics' = diagnostics
                ELSE /\ Len(diagnostics') = Len(diagnostics) + 1
                     /\ Last(diagnostics').message = "Unknown identifier"
                     /\ Last(diagnostics').arg = At(i).lexeme]_vars
    /\ []((/\ pc = "walk" /\ i = 4
           /\ frame.text = Text_Let
           /\ stack_at_call = <<generate_globals>>)
             => /\ <<"x">> \in scope_stack[1]
                /\ Len(diagnostics) = 1
                /\ diagnostics[1].message = "Unknown identifier"
                /\ diagnostics[1].arg = <<"x">>)

\* The body of `let x -> x;` has been walked: its x, bound in the outer
\* scope, was reported.
C20_Witness ==
    /\ pc = "walk"
    /\ i = 4
    /\ frame.text = Text_Let
    /\ <<"x">> \in scope_stack[1]
    /\ Last(scope_stack) = {}
    /\ Len(diagnostics) = 1


\* An accepted let: its name is an identifier that the innermost scope does
\* not hold, and tokens follow the name.
LetAccepted ==
    /\ InLoop
    /\ At(i).token_type = "LET"
    /\ i + 2 < Len(tokens)
    /\ At(i + 1).token_type = "IDENTIFIER"
    /\ At(i + 1).lexeme \notin Last(scope_stack)

RECURSIVE ScanReports(_, _, _, _)
\* What the scan is to report for toks[k..stop-1] (1-based) after it has
\* seen the identifiers of `seen`: message and lexeme, in order.
ScanReports(toks, k, stop, seen) ==
    IF k >= stop THEN <<>>
    ELSE IF toks[k].token_type = "IDENTIFIER"
    THEN (IF toks[k].lexeme \in seen
          THEN <<[message |-> "Duplicate identifier in let statement",
                  arg |-> toks[k].lexeme]>>
          ELSE <<>>)
         \o ScanReports(toks, k + 1, stop, seen \cup {toks[k].lexeme})
    ELSE <<[message |-> "Unexpected token in let statement",
            arg |-> toks[k].lexeme]>>
         \o ScanReports(toks, k + 1, stop, seen)

MessagesOf(diags) ==
    [k \in 1..Len(diags) |-> [message |-> diags[k].message, arg |-> diags[k].arg]]

\* C21: the parameter scan of an accepted let goes through the tokens after
\* the name up to the first arrow-kind token (or to the last token when
\* there is none) and returns: it reports a duplicate for every identifier
\* it has already collected and an unexpected token for every other token
\* that is no arrow, going on after each, and the scope pushed from it holds
\* exactly the identifiers before that arrow.
C21_ParameterScan ==
    [][LetAccepted
         => LET stop == FirstAt(tokens, i + 2, {Lexeme_Arrow, Lexeme_Bar})
            IN  /\ pc' = "walk"
                /\ Last(scope_stack') =
                      ParamsUpTo(tokens, i + 2, {Lexeme_Arrow, Lexeme_Bar})
                /\ MessagesOf(diagnostics') =
                      MessagesOf(diagnostics)
                         \o ScanReports(tokens, i + 3, stop, {})]_vars

\* a >= b for two u32 values kept as representatives in -2^31 .. 2^31 - 1.
GeU32(a, b) == IF (a < 0) = (b < 0) THEN a >= b ELSE a < 0

\* C23: every diagnostic of the check spans one token: start and end are on
\* the same line, the end character is column + lexeme length - 1 with no
\* underflow in computing it (no panic, no wrap to u32::MAX), and the end
\* character is not less than the start character, also for a diagnostic at
\* the end-of-input token.
C23_DiagnosticSpansOneToken ==
    /\ panic # "attempt to subtract with overflow"
    /\ InPass
          => \A k \in 1..Len(diagnostics) :
                LET range == diagnostics[k].range
                IN  /\ range.start.line = range.end.line
                    /\ range.end.character # -1
                    /\ GeU32(range.end.character, range.start.character)


RangesOf(diags) == [k \in 1..Len(diags) |-> diags[k].range]

\* C22: find_unknown_words of main.rs and find_unknown_words of
\* analysis/mod.rs, run on the same tokens from the same scope stack, end the
\* same way, return diagnostics with the same ranges in the same order and
\* leave the scope stack in the same state.
C22_EntryPointsAgree ==
    pc = "loop" /\ i = 0
       => LET of_main == find_unknown_words("main", tokens, scope_stack, build)
              of_analysis ==
                  find_unknown_words("run_analysis", tokens, scope_stack, build)
          IN  /\ of_main.panic = of_analysis.panic
              /\ of_main.scope_stack = of_analysis.scope_stack
              /\ RangesOf(of_main.diagnostics) = RangesOf(of_analysis.diagnostics)


\* A let that is rejected: what follows it is no identifier, or it is an
\* identifier the innermost scope already holds.
LetRejected ==
    /\ InLoop
    /\ At(i).token_type = "LET"
    /\ \/ i + 1 >= Len(tokens)
       \/ At(i + 1).token_type # "IDENTIFIER"
       \/ At(i + 1).lexeme \in Last(scope_stack)

\* C24: a rejected let leaves the scope stack exactly as it was: no name is
\* inserted, no scope is pushed and the binding that is there stays; an
\* accepted let inserts its name into the scope that was innermost, and
\* nothing else into the scopes that were there.
C24_RejectedLetLeavesStack ==
    /\ [][LetRejected => scope_stack' = scope_stack /\ pc' = "respond"]_vars
    /\ [][LetAccepted
            => SubSeq(scope_stack', 1, Len(scope_stack))
                  = [scope_stack EXCEPT ![Len(scope_stack)] =
                        @ \cup {At(i + 1).lexeme}]]_vars

\* The second `let x` of `let x -> x; let x -> x;` was rejected, x being
\* bound by the first, and the stack is as the first let left it.
C24_Witness ==
    /\ pc = "respond"
    /\ frame.text = Text_TwoLets
    /\ i = 6
    /\ scope_stack = <<generate_globals \cup {<<"x">>}>>
    /\ Len(diagnostics) = 2


Lexeme_Semicolon == <<";">>

\* C25: the parameter scan of a let looks at tokens of its own statement
\* only: the identifiers it collects are before the semicolon that ends the
\* statement, and what it reports is a token up to that semicolon, so
\* nothing after the semicolon is collected or reported (and no token can be
\* reported by the scans of two lets).
C25_ScanStaysInStatement ==
    [][LetAccepted /\ pc' = "walk"
         => LET semi == FirstAt(tokens, i + 2, {Lexeme_Semicolon})
                inside == {tokens[k].lexeme :
                              k \in {j \in (i + 3)..Len(tokens) : j <= semi}}
            IN  /\ Last(scope_stack')
                      \subseteq ParamsUpTo(tokens, i + 2, {Lexeme_Semicolon})
                /\ \A k \in (Len(diagnostics) + 1)..Len(diagnostics') :
                      diagnostics'[k].arg \in inside]_vars


\* C26: lets do not nest scopes: all through a pass the scope stack is as
\* deep as find_unknown_words received it or one deeper, and a let token met
\* in the body walk of another let is stepped over, binding no name and
\* pushing no scope.
C26_LetsNeverNest ==
    /\ [](InPass => Len(scope_stack) \in {Len(stack_at_call),
                                          Len(stack_at_call) + 1})
    /\ [][(pc = "walk" /\ i < Len(tokens) /\ At(i).token_type = "LET")
            => /\ pc' = "walk"
               /\ i' = i + 1
               /\ scope_stack' = scope_stack
               /\ diagnostics' = diagnostics]_vars

\* The body walk of `let x -> let y -> y;` has stepped over the inner let:
\* one scope above the stack of the call, and y bound nowhere.
C26_Witness ==
    /\ pc = "walk"
    /\ frame.text = Text_NestedLet
    /\ i = 4
    /\ Len(scope_stack) = Len(stack_at_call) + 1
    /\ \A k \in 1..Len(scope_stack) : <<"y">> \notin scope_stack[k]

====
